---- MODULE Spec2Model ----
(***************************************************************************)
(* The query statics of the Student, Registration and PaymentType models   *)
(* (get, list, listDownload, filteredCount, formCount) and the transform   *)
(* method, run against a document store that other writers append to.      *)
(*                                                                         *)
(* A static is an async function: the call builds its query (Call), the    *)
(* store answers it later (Query) and the continuation after the await     *)
(* computes the value the promise settles with; the caller then receives   *)
(* it (Return).  Documents may be created between any two of these steps.  *)
(*                                                                         *)
(* Time is counted in ticks.  Only the schema fields the statics read are  *)
(* kept in a document; the purely descriptive ones (names, address, ...)   *)
(* are left out of documents and of transform's field list alike.          *)
(***************************************************************************)
EXTENDS Integers, Sequences, FiniteSets, TLC

VARIABLES
    db,         \* the store: collection name -> documents in insertion order
    parents,    \* the Parent collection (never written here)
    now,        \* the clock, in ticks
    pending,    \* calls whose query the store has not answered yet
    response,   \* the settled promise being handed to its caller, or None
    observed    \* the store as the query of `response` saw it

vars == <<db, parents, now, pending, response, observed>>

(***************************************************************************)
(* Bounds of the model.                                                    *)
(***************************************************************************)
MaxRecords == 3
MaxClock == 3
FilterClock == 1
FormClock == 7
TicksPerYear == 2
MaxPending == 2

(***************************************************************************)
(* Program constants.                                                      *)
(***************************************************************************)
NOT_FOUND == 404
DefaultPage == 1
DefaultPerPage == 30
WindowYears == 3
ObjectIdHexLength == 24
ObjectIdByteLength == 12

Entities == {"Student", "Registration", "PaymentType"}

None == <<>>

(***************************************************************************)
(* JavaScript values that reach the statics as arguments or that a         *)
(* document property yields.  Objects carry their identity.                *)
(***************************************************************************)
Undefined == <<"undefined">>
Str(s) == <<"string", s>>
Bool(b) == <<"boolean", b>>
Num(n) == <<"number", n>>
DateObj(ref, t) == <<"object", "Date", ref, t>>
ObjectIdObj(ref, v) == <<"object", "ObjectId", ref, v>>

\* if (x): undefined, "", false and 0 are falsy
Truthy(v) ==
    CASE v[1] = "undefined" -> FALSE
      [] v[1] = "string" -> v[2] # ""
      [] v[1] = "boolean" -> v[2]
      [] v[1] = "number" -> v[2] # 0
      [] OTHER -> TRUE

(***************************************************************************)
(* Instants and the strings that denote them.                              *)
(***************************************************************************)
Instants == 0..(MaxClock + 1)

IsoString(t) == "T" \o ToString(t)

InvalidDate == -1

\* new Date(s): the instant the string denotes, Invalid Date otherwise
NewDate(s) ==
    IF \E t \in Instants : IsoString(t) = s
    THEN CHOOSE t \in Instants : IsoString(t) = s
    ELSE InvalidDate

Year(t) == t \div TicksPerYear

(***************************************************************************)
(* Identifiers.  An identifier string is described by its length, whether  *)
(* it is all hex digits, and the ObjectId value it denotes when it is a    *)
(* 24-digit hex string.                                                    *)
(***************************************************************************)
HexString(oid) == [len |-> ObjectIdHexLength, hex |-> TRUE, val |-> oid]

NoObjectId == 0

\* mongoose.Types.ObjectId.isValid
isValid(id) ==
    \/ id.len = ObjectIdHexLength /\ id.hex
    \/ id.len = ObjectIdByteLength

\* the ObjectId a valid identifier string is cast to
CastObjectId(id) ==
    IF id.len = ObjectIdHexLength /\ id.hex THEN id.val ELSE NoObjectId

(***************************************************************************)
(* Schemas.                                                                *)
(***************************************************************************)
MotherId == 101
FatherId == 102

ParentDocs == {[_id |-> MotherId], [_id |-> FatherId]}

SchemaType(e, f) ==
    CASE f \in {"createdAt", "updatedAt"} -> "Date"
      [] f = "_id" -> "ObjectId"
      [] f = "__v" -> "Number"
      [] e = "Student" /\ f \in {"grade", "birthplace", "religion",
                                 "citizenship", "bloodType"} -> "String"
      [] e = "Student" /\ f = "birthdate" -> "Date"
      [] e = "Student" /\ f \in {"gender", "studentStatus"} -> "Boolean"
      [] e = "Student" /\ f = "height" -> "Number"
      [] e = "Student" /\ f \in {"mother_id", "father_id"} -> "ObjectId"
      [] e = "Registration" /\ f \in {"name", "email", "grade"} -> "String"
      [] e = "PaymentType" /\ f = "type" -> "String"
      [] e = "PaymentType" /\ f = "deadline" -> "Date"
      [] OTHER -> "none"

\* timestamps: true, and the identifier and version key every document gets
NewDoc(form, oid, t) ==
    [f \in DOMAIN form \cup {"_id", "__v", "createdAt", "updatedAt"} |->
        CASE f = "_id" -> oid
          [] f = "__v" -> 0
          [] f \in {"createdAt", "updatedAt"} -> t
          [] OTHER -> form[f]]

TotalDocs(D) == Len(D["Student"]) + Len(D["Registration"]) + Len(D["PaymentType"])

EmptyDb == [e \in Entities |-> <<>>]

(***************************************************************************)
(* Outcomes of a call.                                                     *)
(***************************************************************************)
Resolve(v, n) == [ok |-> TRUE, value |-> v, queries |-> n]

Reject(err, n) == [ok |-> FALSE, error |-> err, queries |-> n]

APIError(message, status) ==
    [name |-> "APIError", message |-> message, status |-> status]

CastError == [name |-> "CastError"]

NotFoundMessage(e) ==
    CASE e = "Student" -> "Student does not exist"
      [] e = "Registration" -> "Registration Form does not exist"
      [] e = "PaymentType" -> "The payment type does not exist"

(***************************************************************************)
(* get(id)                                                                 *)
(***************************************************************************)
\* findById that hands back the first document of the collection
findById_First(coll, id) ==
    IF coll = <<>> THEN None ELSE <<coll[1]>>

\* Model.findById(id).exec(): the document or null
findById(coll, id) ==
    LET oid == CastObjectId(id)
        hits == SelectSeq(coll, LAMBDA d : d._id = oid)
    IN IF hits = <<>> THEN None ELSE <<hits[1]>>

\* .populate(path): the referenced Parent document, or null when there is none
Deref(P, oid) ==
    IF \E p \in P : p._id = oid
    THEN <<CHOOSE p \in P : p._id = oid>>
    ELSE None

populate(doc, P) ==
    [doc EXCEPT !.mother_id = Deref(P, @), !.father_id = Deref(P, @)]

\* queries a populated read of n documents costs on top of the find itself
PopulateQueries(e, n) == IF e = "Student" /\ n > 0 THEN 2 ELSE 0

\* get without the identifier check: the store is always asked
get_Unchecked(e, id, D, P) ==
    LET found == findById(D[e], id)
        nq == 1 + PopulateQueries(e, Len(found))
    IN IF found # None
       THEN {Resolve(IF e = "Student" THEN populate(found[1], P) ELSE found[1], nq)}
       ELSE {Reject(APIError(NotFoundMessage(e), NOT_FOUND), nq)}

get(e, id, D, P) ==
    LET found == IF isValid(id) THEN findById(D[e], id) ELSE None
        nq == IF isValid(id) THEN 1 + PopulateQueries(e, Len(found)) ELSE 0
    IN IF found # None
       THEN {Resolve(IF e = "Student" THEN populate(found[1], P) ELSE found[1], nq)}
       ELSE {Reject(APIError(NotFoundMessage(e), NOT_FOUND), nq)}

(***************************************************************************)
(* list({page, perPage})                                                   *)
(***************************************************************************)
\* a destructuring default applies when the property is undefined
OrDefault(v, dflt) == IF v = Undefined THEN dflt ELSE v[2]

\* .sort({createdAt: -1}): the orders of coll in which creation time never
\* increases; documents created at the same instant come in either order
SortCreatedDesc(coll) ==
    LET n == Len(coll)
        orders == {f \in Permutations(1..n) :
                      \A i \in 1..n : \A j \in 1..n :
                          i < j => coll[f[i]].createdAt >= coll[f[j]].createdAt}
    IN {[i \in 1..n |-> coll[f[i]]] : f \in orders}

\* .skip(n).limit(m) on a cursor; a limit of 0 is no limit
SkipLimit(docs, n, m) ==
    LET last == IF m = 0 THEN Len(docs)
                ELSE IF n + m < Len(docs) THEN n + m ELSE Len(docs)
    IN SubSeq(docs, n + 1, last)

PopulateAll(e, docs, P) ==
    IF e = "Student" THEN [i \in 1..Len(docs) |-> populate(docs[i], P)] ELSE docs

\* list that skips one page too many
list_SkipOff(e, args, D, P) ==
    LET page == OrDefault(args.page, DefaultPage)
        perPage == OrDefault(args.perPage, DefaultPerPage)
    IN {Resolve(PopulateAll(e, SkipLimit(s, perPage * page, perPage), P), 1)
           : s \in SortCreatedDesc(D[e])}

list(e, args, D, P) ==
    LET page == OrDefault(args.page, DefaultPage)
        perPage == OrDefault(args.perPage, DefaultPerPage)
        skip == perPage * (page - 1)
    IN IF skip < 0
       THEN {Reject([name |-> "MongoError"], 1)}
       ELSE {Resolve(PopulateAll(e, SkipLimit(s, skip, perPage), P),
                     1 + PopulateQueries(e, Len(SkipLimit(s, skip, perPage))))
                : s \in SortCreatedDesc(D[e])}

(***************************************************************************)
(* Model.find(conditions)                                                  *)
(***************************************************************************)
\* the value a schema path of type ty casts a query value to, None when the
\* cast fails
Cast(ty, v) ==
    CASE ty = "String" /\ v[1] = "string" -> <<v[2]>>
      [] ty = "Boolean" /\ v[1] = "boolean" -> <<v[2]>>
      [] ty = "Boolean" /\ v \in {Str("true"), Str("1")} -> <<TRUE>>
      [] ty = "Boolean" /\ v \in {Str("false"), Str("0")} -> <<FALSE>>
      [] ty = "Date" /\ v[1] = "string" /\ NewDate(v[2]) # InvalidDate
            -> <<NewDate(v[2])>>
      [] ty = "Date" /\ v[1] = "object" /\ v[2] = "Date" /\ v[4] # InvalidDate
            -> <<v[4]>>
      [] OTHER -> None

\* conditions: the bounds on createdAt ($gte, $lte; None when not set) and
\* the equality conditions (path -> value)
Conditions(gte, lte, eq) == [gte |-> gte, lte |-> lte, eq |-> eq]

NoBound == None

CastFails(e, q) ==
    \/ \E f \in DOMAIN q.eq : Cast(SchemaType(e, f), q.eq[f]) = None
    \/ q.gte # NoBound /\ Cast("Date", q.gte[1]) = None
    \/ q.lte # NoBound /\ Cast("Date", q.lte[1]) = None

Matches(e, d, q) ==
    /\ \A f \in DOMAIN q.eq :
           f \in DOMAIN d /\ d[f] = Cast(SchemaType(e, f), q.eq[f])[1]
    /\ q.gte # NoBound => d.createdAt >= Cast("Date", q.gte[1])[1]
    /\ q.lte # NoBound => d.createdAt <= Cast("Date", q.lte[1])[1]

\* the matching documents in the collection's order, or a CastError
find(e, coll, q) ==
    IF CastFails(e, q)
    THEN Reject(CastError, 0)
    ELSE Resolve(SelectSeq(coll, LAMBDA d : Matches(e, d, q)), 1)

\* new Date(x) for a string argument, as a Date object of the call
DateOf(v) == DateObj(0, NewDate(v[2]))

\* the four branches on start and end with an exclusive lower bound
createdAtRange_Exclusive(start, end, eq) ==
    CASE Truthy(start) /\ Truthy(end) ->
            Conditions(<<DateObj(0, NewDate(start[2]) + 1)>>, <<DateOf(end)>>, eq)
      [] ~Truthy(start) /\ Truthy(end) ->
            Conditions(NoBound, <<DateOf(end)>>, eq)
      [] ~Truthy(end) /\ Truthy(start) ->
            Conditions(<<DateObj(0, NewDate(start[2]) + 1)>>, NoBound, eq)
      [] OTHER -> Conditions(NoBound, NoBound, eq)

\* the four branches on start and end that listDownload and filteredCount share
createdAtRange(start, end, eq) ==
    CASE Truthy(start) /\ Truthy(end) ->
            Conditions(<<DateOf(start)>>, <<DateOf(end)>>, eq)
      [] ~Truthy(start) /\ Truthy(end) ->
            Conditions(NoBound, <<DateOf(end)>>, eq)
      [] ~Truthy(end) /\ Truthy(start) ->
            Conditions(<<DateOf(start)>>, NoBound, eq)
      [] OTHER -> Conditions(NoBound, NoBound, eq)

(***************************************************************************)
(* listDownload(filters)                                                   *)
(***************************************************************************)
StudentFilters ==
    {"grade", "birthplace", "birthdate", "gender", "religion", "citizenship",
     "bloodType", "studentStatus"}

\* Student: if (grade) formData.grade = grade, and so on for each filter
formDataStudent(args) ==
    [f \in {g \in StudentFilters : Truthy(args[g])} |-> args[f]]

\* PaymentType without the deadline condition
formDataPaymentType_None(args) ==
    [f \in {} |-> Undefined]

\* PaymentType: only deadline is read from the filters
formDataPaymentType(args) ==
    [f \in (IF Truthy(args.deadline) THEN {"deadline"} ELSE {})
        |-> DateOf(args.deadline)]

formData(e, args) ==
    IF e = "Student" THEN formDataStudent(args) ELSE formDataPaymentType(args)

listDownload(e, args, D) ==
    {find(e, D[e], createdAtRange(args.start, args.end, formData(e, args)))}

(***************************************************************************)
(* filteredCount({start, end, type})                                       *)
(***************************************************************************)
\* String(v), the property name a value is used as
PropertyKey(v) ==
    CASE v[1] = "undefined" -> "undefined"
      [] v[1] = "string" -> v[2]
      [] v[1] = "boolean" -> IF v[2] THEN "true" ELSE "false"
      [] v[1] = "number" -> ToString(v[2])
      [] v[1] = "object" /\ v[2] = "Date" -> "Date " \o ToString(v[4])
      [] OTHER -> ToString(v[4])

\* item[type] on a document: a schema path yields its value, a Date or an
\* ObjectId as an object of that document; any other name yields undefined
ItemProperty(e, d, name) ==
    LET f == PropertyKey(name)
        ty == SchemaType(e, f)
    IN IF f \notin DOMAIN d THEN Undefined
       ELSE CASE ty = "String" -> Str(d[f])
              [] ty = "Boolean" -> Bool(d[f])
              [] ty = "Number" -> Num(d[f])
              [] ty = "Date" -> DateObj(d._id, d[f])
              [] OTHER -> ObjectIdObj(d._id, d[f])

\* [...new Set(xs)]: first occurrences, objects told apart by identity
RECURSIVE SetOrder(_)
SetOrder(xs) ==
    IF xs = <<>> THEN <<>>
    ELSE LET init == SetOrder(SubSeq(xs, 1, Len(xs) - 1))
             x == xs[Len(xs)]
         IN IF \E i \in 1..Len(init) : init[i] = x THEN init ELSE Append(init, x)

\* the forEach that tallies valueCounts, over the first n items
RECURSIVE Tally(_, _)
Tally(vals, n) ==
    IF n = 0 THEN [k \in {} |-> 0]
    ELSE LET vc == Tally(vals, n - 1)
             value == vals[n]
             key == PropertyKey(value)
         IN IF value # Undefined
            THEN IF key \in DOMAIN vc /\ vc[key] # 0
                 THEN [vc EXCEPT ![key] = @ + 1]
                 ELSE [k \in DOMAIN vc \cup {key} |-> IF k = key THEN 1 ELSE vc[k]]
            ELSE vc

chartData(values, valueCounts) ==
    [i \in 1..Len(values) |->
        [value |-> values[i],
         count |-> IF PropertyKey(values[i]) \in DOMAIN valueCounts
                      /\ valueCounts[PropertyKey(values[i])] # 0
                   THEN valueCounts[PropertyKey(values[i])] ELSE 0]]

filteredCount(e, args, D) ==
    LET result == find(e, D[e], createdAtRange(args.start, args.end, <<>>))
        items == [i \in 1..Len(result.value) |->
                     ItemProperty(e, result.value[i], args.type)]
        values == SetOrder(items)
        valueCounts == Tally(items, Len(items))
    IN IF result.ok
       THEN {Resolve(chartData(values, valueCounts), 1)}
       ELSE {result}

(***************************************************************************)
(* Student.formCount()                                                     *)
(***************************************************************************)
\* threeYearsBefore.setFullYear(threeYearsBefore.getFullYear() - 3)
threeYearsBefore(dateNow) == dateNow - WindowYears * TicksPerYear

\* $match that lets every document through
MatchWindow_All(coll, gte, lte) == coll

\* $match on createdAt
MatchWindow(coll, gte, lte) ==
    SelectSeq(coll, LAMBDA d : d.createdAt >= gte /\ d.createdAt <= lte)

\* $group by {year: $year(createdAt), gender}, counting
GroupYearGender(docs) ==
    {[_id |-> [year |-> y, gender |-> g],
      count |-> Cardinality({i \in 1..Len(docs) :
                   Year(docs[i].createdAt) = y /\ docs[i].gender = g})] :
        <<y, g>> \in {<<Year(docs[i].createdAt), docs[i].gender>> : i \in 1..Len(docs)}}

\* $group by year, pushing {gender, count}
GroupYear(groups) ==
    {[_id |-> y,
      counts |-> {[gender |-> r._id.gender, count |-> r.count] :
                     r \in {q \in groups : q._id.year = y}}] :
        y \in {r._id.year : r \in groups}}

\* $arrayElemAt [$filter(counts, gender = g), 0]: the item, or missing
ItemFor(counts, g) ==
    IF \E c \in counts : c.gender = g
    THEN <<CHOOSE c \in counts : c.gender = g>>
    ELSE None

\* $project
ProjectCounts(rows) ==
    {[year |-> r._id,
      girlCount |-> ItemFor(r.counts, TRUE),
      boyCount |-> ItemFor(r.counts, FALSE)] : r \in rows}

\* $sort {year: 1}; one row per year, so the order is determined
RECURSIVE SortByYear(_)
SortByYear(rows) ==
    IF rows = {} THEN <<>>
    ELSE LET first == CHOOSE r \in rows : \A q \in rows : r.year <= q.year
         IN <<first>> \o SortByYear(rows \ {first})

formCount(dateNow, D) ==
    LET matched == MatchWindow(D["Student"], threeYearsBefore(dateNow), dateNow)
        students == SortByYear(ProjectCounts(GroupYear(GroupYearGender(matched))))
        result == [i \in 1..Len(students) |->
                      [year |-> students[i].year,
                       girlCount |-> IF students[i].girlCount # None
                                     THEN students[i].girlCount[1].count ELSE 0,
                       boyCount |-> IF students[i].boyCount # None
                                    THEN students[i].boyCount[1].count ELSE 0]]
    IN {Resolve(result, 1)}

(***************************************************************************)
(* transform()                                                             *)
(***************************************************************************)
TransformFields(e) ==
    CASE e = "Student" ->
            {"id", "grade", "birthplace", "birthdate", "gender", "religion",
             "citizenship", "studentStatus", "height", "bloodType",
             "mother_id", "father_id", "createdAt", "updatedAt"}
      [] e = "Registration" -> {"id", "name", "email", "grade", "createdAt"}
      [] e = "PaymentType" -> {"id", "type", "deadline", "createdAt"}

\* fields.forEach(field => transformed[field] = this[field]); id is the
\* virtual that gives _id as a hex string
transform(e, d) ==
    [f \in TransformFields(e) |-> IF f = "id" THEN HexString(d._id) ELSE d[f]]

(***************************************************************************)
(* The outcomes a call can settle with, given what the store holds when    *)
(* its query runs.                                                         *)
(***************************************************************************)
Execute(c, D, P) ==
    CASE c.op = "get" -> get(c.entity, c.args.id, D, P)
      [] c.op = "list" -> list(c.entity, c.args, D, P)
      [] c.op = "listDownload" -> listDownload(c.entity, c.args, D)
      [] c.op = "filteredCount" -> filteredCount(c.entity, c.args, D)
      [] c.op = "formCount" -> formCount(c.args.dateNow, D)

(***************************************************************************)
(* Actions.                                                                *)
(***************************************************************************)
Init ==
    /\ db = EmptyDb
    /\ parents \in {ParentDocs, {[_id |-> MotherId]}}
    /\ now = 0
    /\ pending = {}
    /\ response = None
    /\ observed = EmptyDb

\* another writer saves a new document of entity e
Create(e, form) ==
    /\ TotalDocs(db) < MaxRecords
    /\ db' = [db EXCEPT ![e] = Append(@, NewDoc(form, TotalDocs(db) + 1, now))]
    /\ UNCHANGED <<parents, now, pending, response, observed>>

Tick(limit) ==
    /\ now < limit
    /\ now' = now + 1
    /\ UNCHANGED <<db, parents, pending, response, observed>>

\* a caller invokes a static; at most cap calls are in flight
Call(c, cap) ==
    /\ response = None
    /\ Cardinality(pending) < cap
    /\ c \notin pending
    /\ pending' = pending \cup {c}
    /\ UNCHANGED <<db, parents, now, response, observed>>

\* a query step that also removes the oldest document it read
Query_Writes(c) ==
    /\ response = None
    /\ c \in pending
    /\ pending' = pending \ {c}
    /\ \E out \in Execute(c, db, parents) :
           response' = [call |-> c, outcome |-> out]
    /\ observed' = db
    /\ db' = [db EXCEPT ![c.entity] = IF @ = <<>> THEN @ ELSE Tail(@)]
    /\ UNCHANGED <<parents, now>>

\* the store answers the query of call c and the promise settles
Query(c) ==
    /\ response = None
    /\ c \in pending
    /\ pending' = pending \ {c}
    /\ \E out \in Execute(c, db, parents) :
           response' = [call |-> c, outcome |-> out]
    /\ observed' = db
    /\ UNCHANGED <<db, parents, now>>

\* a caller projects the i-th document of a collection; no query, no await
Transform(e, i) ==
    /\ response = None
    /\ i \in 1..Len(db[e])
    /\ response' = [call |-> [op |-> "transform", entity |-> e,
                              args |-> [doc |-> db[e][i]]],
                    outcome |-> Resolve(transform(e, db[e][i]), 0)]
    /\ observed' = db
    /\ UNCHANGED <<db, parents, now, pending>>

\* the caller receives the settled promise
Return ==
    /\ response # None
    /\ response' = None
    /\ observed' = EmptyDb
    /\ UNCHANGED <<db, parents, now, pending>>

(***************************************************************************)
(* get: every entity, well-formed and malformed identifiers.               *)
(***************************************************************************)
StudentForm(grade, gender, status) ==
    [grade |-> grade, birthplace |-> "Jakarta", birthdate |-> 0,
     gender |-> gender, religion |-> "Islam", citizenship |-> "WNI",
     bloodType |-> "O", studentStatus |-> status, height |-> 0,
     mother_id |-> MotherId, father_id |-> FatherId]

RegistrationForm(grade) ==
    [name |-> "Budi", email |-> "budi@example.com", grade |-> grade]

PaymentTypeForm(type, deadline) == [type |-> type, deadline |-> deadline]

OneFormEach(e) ==
    CASE e = "Student" -> {StudentForm("TK-A", TRUE, TRUE)}
      [] e = "Registration" -> {RegistrationForm("TK-A")}
      [] e = "PaymentType" -> {PaymentTypeForm("SPP", 0)}

MalformedIds ==
    {[len |-> 5, hex |-> TRUE, val |-> 1],
     [len |-> ObjectIdHexLength, hex |-> FALSE, val |-> 1]}

WellFormedIds ==
    {HexString(n) : n \in 1..(MaxRecords + 1)}
        \cup {[len |-> ObjectIdByteLength, hex |-> FALSE, val |-> 1]}

GetCalls ==
    {[op |-> "get", entity |-> e, args |-> [id |-> id]] :
        e \in Entities, id \in MalformedIds \cup WellFormedIds}

CreateAny == \E e \in Entities : \E form \in OneFormEach(e) : Create(e, form)

CallGet == \E c \in GetCalls : Call(c, 1)

QueryAny == \E c \in pending : Query(c)

NextGet == CreateAny \/ CallGet \/ QueryAny \/ Return

SpecGet == Init /\ [][NextGet]_vars

Settled(op) == response # None /\ response.call.op = op

IsNotFound(out, e) ==
    /\ ~out.ok
    /\ out.error.name = "APIError"
    /\ out.error.status = 404
    /\ out.error.message = NotFoundMessage(e)

\* the stored record, but for the two references populate resolves
SameRecord(v, d) ==
    /\ DOMAIN v = DOMAIN d
    /\ \A f \in DOMAIN d \ {"mother_id", "father_id"} : v[f] = d[f]

\* C1: for every entity, get with a syntactically invalid identifier fails
\* with the 404 Not-Found error and the call issues no query to the store.
C1_MalformedIdNotFoundNoQuery ==
    (Settled("get") /\ response.call.args.id \in MalformedIds) =>
        /\ IsNotFound(response.outcome, response.call.entity)
        /\ response.outcome.queries = 0

C1_Witness ==
    /\ Settled("get")
    /\ response.call.args.id \in MalformedIds
    /\ response.call.entity = "Registration"
    /\ observed["Registration"] # <<>>

\* C2: for every entity and well-formed identifier, get returns the stored
\* record with that identifier when there is one, and otherwise fails with
\* the 404 Not-Found error carrying the entity's message; never another
\* record, never an empty result.
C2_GetReturnsRecordOrNotFound ==
    (Settled("get") /\ response.call.args.id \in WellFormedIds) =>
        LET e == response.call.entity
            id == response.call.args.id
            out == response.outcome
            stored == {i \in 1..Len(observed[e]) :
                          HexString(observed[e][i]._id) = id}
        IN IF stored # {}
           THEN /\ out.ok
                /\ out.value # None
                /\ \E i \in stored : SameRecord(out.value, observed[e][i])
           ELSE IsNotFound(out, e)

C2_Witness ==
    /\ Settled("get")
    /\ response.call.entity = "Student"
    /\ Len(observed["Student"]) >= 2
    /\ response.call.args.id = HexString(observed["Student"][2]._id)
    /\ response.outcome.ok

(***************************************************************************)
(* list: pages of one collection whose documents are created over time.    *)
(***************************************************************************)
InitAllParents ==
    /\ db = EmptyDb
    /\ parents = ParentDocs
    /\ now = 0
    /\ pending = {}
    /\ response = None
    /\ observed = EmptyDb

\* a run fills one collection
CreateOnly(e, form) ==
    /\ \A o \in Entities \ {e} : db[o] = <<>>
    /\ Create(e, form)

PageArgs == {Undefined, Num(0), Num(1), Num(2), Num(3)}

PerPageArgs == {Undefined, Num(0), Num(1), Num(2)}

ListCalls ==
    {[op |-> "list", entity |-> e, args |-> [page |-> p, perPage |-> pp]] :
        e \in Entities, p \in PageArgs, pp \in PerPageArgs}

CreateOne == \E e \in Entities : \E form \in OneFormEach(e) : CreateOnly(e, form)

TickClock == Tick(MaxClock)

CallList == \E c \in ListCalls : Call(c, 1)

NextList == CreateOne \/ TickClock \/ CallList \/ QueryAny \/ Return

SpecList == InitAllParents /\ [][NextList]_vars

CountOf(S) == Cardinality(S)

\* C3: for every entity, page >= 1 and perPage >= 1 (defaults 1 and 30), list
\* returns exactly the records at positions perPage*(page-1)+1 .. perPage*page
\* of the records in creation-time-descending order, fewer when the store
\* has fewer.
C3_ListReturnsPage ==
    (/\ Settled("list")
     /\ response.call.args.page \notin {Num(0)}
     /\ response.call.args.perPage \notin {Num(0)}) =>
        LET e == response.call.entity
            coll == observed[e]
            n == Len(coll)
            page == IF response.call.args.page = Undefined
                    THEN 1 ELSE response.call.args.page[2]
            perPage == IF response.call.args.perPage = Undefined
                       THEN 30 ELSE response.call.args.perPage[2]
            first == perPage * (page - 1) + 1
            last == IF perPage * page < n THEN perPage * page ELSE n
            res == response.outcome.value
        IN /\ response.outcome.ok
           /\ Len(res) = (IF last >= first THEN last - first + 1 ELSE 0)
           /\ \A i \in 1..Len(res) :
                  LET k == first + i - 1
                      newer == {j \in 1..n : coll[j].createdAt > res[i].createdAt}
                      notOlder == {j \in 1..n : coll[j].createdAt >= res[i].createdAt}
                  IN /\ \E j \in 1..n : SameRecord(res[i], coll[j])
                     /\ CountOf(newer) <= k - 1
                     /\ CountOf(notOlder) >= k
           /\ \A i \in 1..Len(res) : \A j \in 1..Len(res) :
                  i # j => res[i]._id # res[j]._id

C3_Witness ==
    /\ Settled("list")
    /\ response.call.args.page = Num(2)
    /\ response.call.args.perPage = Num(1)
    /\ Len(observed[response.call.entity]) = 3
    /\ observed[response.call.entity][1].createdAt
           < observed[response.call.entity][2].createdAt
    /\ response.outcome.ok
    /\ Len(response.outcome.value) = 1
    /\ response.outcome.value[1]._id = observed[response.call.entity][2]._id

(***************************************************************************)
(* listDownload with date bounds only.                                     *)
(***************************************************************************)
NoStudentFilters ==
    [grade |-> Undefined, birthplace |-> Undefined, birthdate |-> Undefined,
     gender |-> Undefined, religion |-> Undefined, citizenship |-> Undefined,
     bloodType |-> Undefined, studentStatus |-> Undefined]

NoPaymentTypeFilters == [deadline |-> Undefined, type |-> Undefined]

\* the parameter object: the date bounds next to the filters
Parameters(start, end, filters) ==
    [f \in DOMAIN filters \cup {"start", "end"} |->
        CASE f = "start" -> start
          [] f = "end" -> end
          [] OTHER -> filters[f]]

DateArgs ==
    {Undefined, Str(""), Str("not a date"), Str(IsoString(1)), Str(IsoString(2))}

DateOnlyCalls ==
    {[op |-> "listDownload", entity |-> "Student",
      args |-> Parameters(a, b, NoStudentFilters)] :
        a \in DateArgs, b \in DateArgs}
    \cup
    {[op |-> "listDownload", entity |-> "PaymentType",
      args |-> Parameters(a, b, NoPaymentTypeFilters)] :
        a \in DateArgs, b \in DateArgs}

CreateDated ==
    \E e \in {"Student", "PaymentType"} :
        \E form \in OneFormEach(e) : CreateOnly(e, form)

CallDownloadDates == \E c \in DateOnlyCalls : Call(c, 1)

NextDates == CreateDated \/ TickClock \/ CallDownloadDates \/ QueryAny \/ Return

SpecDates == InitAllParents /\ [][NextDates]_vars

\* a bound the caller left out
Omitted(v) == v \in {Undefined, Str("")}

IsDateString(v) == \E t \in Instants : v = Str(IsoString(t))

InstantOf(v) == CHOOSE t \in Instants : v = Str(IsoString(t))

InBounds(t, start, end) ==
    /\ IsDateString(start) => InstantOf(start) <= t
    /\ IsDateString(end) => t <= InstantOf(end)

\* res holds exactly the documents of coll at the indices in keep, each once
ExactlyThose(res, coll, keep) ==
    /\ \A i \in 1..Len(res) : \E j \in keep : res[i] = coll[j]
    /\ \A j \in keep : \E i \in 1..Len(res) : res[i] = coll[j]
    /\ \A i \in 1..Len(res) : \A k \in 1..Len(res) : i # k => res[i]._id # res[k]._id

\* the indices of the documents of the queried collection
Stored == 1..Len(observed[response.call.entity])

StoredDoc(j) == observed[response.call.entity][j]

\* C4: listDownload with no equality filters returns exactly the records its
\* date bounds select on creation time: start <= createdAt <= end with both,
\* createdAt <= end with only end, createdAt >= start with only start, and
\* all records with neither.
C4_DateBoundsSelect ==
    (/\ Settled("listDownload")
     /\ \A f \in DOMAIN response.call.args \ {"start", "end"} :
            response.call.args[f] = Undefined
     /\ Omitted(response.call.args.start) \/ IsDateString(response.call.args.start)
     /\ Omitted(response.call.args.end) \/ IsDateString(response.call.args.end)) =>
        /\ response.outcome.ok
        /\ ExactlyThose(response.outcome.value, observed[response.call.entity],
                {j \in Stored : InBounds(StoredDoc(j).createdAt,
                                         response.call.args.start,
                                         response.call.args.end)})

C4_Witness ==
    /\ Settled("listDownload")
    /\ response.call.entity = "PaymentType"
    /\ response.call.args.start = Str(IsoString(1))
    /\ response.call.args.end = Str(IsoString(2))
    /\ response.outcome.ok
    /\ Len(response.outcome.value) = 1
    /\ response.outcome.value[1].createdAt = 1
    /\ Len(observed["PaymentType"]) = 3

(***************************************************************************)
(* Student.listDownload with equality filters.                             *)
(***************************************************************************)
StudentForms ==
    {StudentForm("TK-A", g, st) : g \in BOOLEAN, st \in BOOLEAN}

FilterOptions(f) ==
    CASE f = "grade" -> {Str("TK-A"), Str("TK-B"), Str("")}
      [] f = "birthplace" -> {Str("Jakarta"), Str("Bogor")}
      [] f = "birthdate" -> {Str(IsoString(0)), Str(IsoString(1))}
      [] f = "gender" -> {Bool(TRUE), Bool(FALSE), Str("false")}
      [] f = "religion" -> {Str("Islam"), Str("Kristen")}
      [] f = "citizenship" -> {Str("WNI")}
      [] f = "bloodType" -> {Str("O"), Str("AB")}
      [] f = "studentStatus" -> {Bool(TRUE), Bool(FALSE)}

\* the filter objects that set at most two of the equality filters
StudentFilterArgs ==
    {[f \in StudentFilters |->
         IF f = f1 THEN v1 ELSE IF f = f2 THEN v2 ELSE Undefined] :
        <<f1, v1, f2, v2>> \in
            {<<g1, w1, g2, w2>> \in
                 StudentFilters \X (UNION {FilterOptions(g) : g \in StudentFilters}
                                      \cup {Undefined})
                 \X StudentFilters \X (UNION {FilterOptions(g) : g \in StudentFilters}
                                        \cup {Undefined}) :
                 /\ w1 \in FilterOptions(g1) \cup {Undefined}
                 /\ w2 \in FilterOptions(g2) \cup {Undefined}
                 /\ g1 # g2}}

StudentFilterCalls ==
    {[op |-> "listDownload", entity |-> "Student",
      args |-> Parameters(a, Undefined, fs)] :
        a \in {Undefined, Str(IsoString(1))}, fs \in StudentFilterArgs}

CreateStudent == \E form \in StudentForms : CreateOnly("Student", form)

TickFilterClock == Tick(FilterClock)

CallStudentDownload == \E c \in StudentFilterCalls : Call(c, 1)

NextStudentFilters ==
    CreateStudent \/ TickFilterClock \/ CallStudentDownload \/ QueryAny \/ Return

SpecStudentFilters == InitAllParents /\ [][NextStudentFilters]_vars

\* v is a value a field of schema type ty holds
Holds(ty, v) ==
    CASE ty = "String" -> v[1] = "string" /\ v[2] # ""
      [] ty = "Boolean" -> v[1] = "boolean"
      [] ty = "Date" -> IsDateString(v)
      [] OTHER -> FALSE

\* document d has the provided value v in field f
FieldEquals(e, d, f, v) ==
    IF SchemaType(e, f) = "Date" THEN d[f] = InstantOf(v) ELSE d[f] = v[2]

\* C5: Student.listDownload ANDs every provided equality filter with the
\* date filter, for every value the field can hold, the boolean false for
\* gender and studentStatus included: the result is exactly the stored
\* records equal to each provided value and inside the date bounds.
C5_StudentFiltersAnded ==
    (/\ Settled("listDownload")
     /\ response.call.entity = "Student"
     /\ \A f \in StudentFilters :
            \/ response.call.args[f] = Undefined
            \/ Holds(SchemaType("Student", f), response.call.args[f])
     /\ Omitted(response.call.args.start) \/ IsDateString(response.call.args.start)
     /\ Omitted(response.call.args.end) \/ IsDateString(response.call.args.end)) =>
        /\ response.outcome.ok
        /\ ExactlyThose(response.outcome.value, observed["Student"],
                {j \in Stored :
                    /\ \A f \in StudentFilters :
                           response.call.args[f] # Undefined =>
                               FieldEquals("Student", StoredDoc(j), f,
                                           response.call.args[f])
                    /\ InBounds(StoredDoc(j).createdAt, response.call.args.start,
                                response.call.args.end)})

(***************************************************************************)
(* PaymentType.listDownload with equality filters.                         *)
(***************************************************************************)
PaymentTypeForms ==
    {PaymentTypeForm(ty, dl) : ty \in {"SPP", "Seragam"}, dl \in 1..2}

PaymentTypeFilterCalls ==
    {[op |-> "listDownload", entity |-> "PaymentType",
      args |-> [start |-> a, end |-> b, deadline |-> dl, type |-> ty]] :
        a \in {Undefined, Str(IsoString(1))},
        b \in {Undefined},
        dl \in {Undefined, Str(""), Str("not a date"),
                Str(IsoString(1)), Str(IsoString(2))},
        ty \in {Undefined, Str("SPP"), Str("Seragam")}}

CreatePaymentType == \E form \in PaymentTypeForms : CreateOnly("PaymentType", form)

CallPaymentTypeDownload == \E c \in PaymentTypeFilterCalls : Call(c, 1)

NextPaymentTypeFilters ==
    CreatePaymentType \/ TickFilterClock \/ CallPaymentTypeDownload
        \/ QueryAny \/ Return

SpecPaymentTypeFilters == InitAllParents /\ [][NextPaymentTypeFilters]_vars

ValidPaymentTypeArgs(args) ==
    /\ args.type = Undefined \/ Holds("String", args.type)
    /\ Omitted(args.deadline) \/ IsDateString(args.deadline)
    /\ Omitted(args.start) \/ IsDateString(args.start)
    /\ Omitted(args.end) \/ IsDateString(args.end)

\* C6, as claimed: PaymentType.listDownload applies both a provided type and
\* a provided deadline, each ANDed with the date filter.
C6_TypeAndDeadlineFilter ==
    (/\ Settled("listDownload")
     /\ response.call.entity = "PaymentType"
     /\ ValidPaymentTypeArgs(response.call.args)) =>
        /\ response.outcome.ok
        /\ ExactlyThose(response.outcome.value, observed["PaymentType"],
                {j \in Stored :
                    /\ response.call.args.type # Undefined =>
                           StoredDoc(j).type = response.call.args.type[2]
                    /\ IsDateString(response.call.args.deadline) =>
                           StoredDoc(j).deadline = InstantOf(response.call.args.deadline)
                    /\ InBounds(StoredDoc(j).createdAt, response.call.args.start,
                                response.call.args.end)})

\* C6, amended: PaymentType.listDownload applies a provided deadline, ANDed
\* with the date filter, and nothing else: a provided type does not narrow
\* the result.
C6_DeadlineFilterOnly ==
    (/\ Settled("listDownload")
     /\ response.call.entity = "PaymentType"
     /\ ValidPaymentTypeArgs(response.call.args)) =>
        /\ response.outcome.ok
        /\ ExactlyThose(response.outcome.value, observed["PaymentType"],
                {j \in Stored :
                    /\ IsDateString(response.call.args.deadline) =>
                           StoredDoc(j).deadline = InstantOf(response.call.args.deadline)
                    /\ InBounds(StoredDoc(j).createdAt, response.call.args.start,
                                response.call.args.end)})

C6_Witness ==
    /\ Settled("listDownload")
    /\ response.call.entity = "PaymentType"
    /\ response.call.args.type = Str("SPP")
    /\ response.call.args.deadline = Str(IsoString(2))
    /\ response.call.args.start = Str(IsoString(1))
    /\ response.outcome.ok
    /\ Len(observed["PaymentType"]) = 3
    /\ Len(response.outcome.value) = 1
    /\ response.outcome.value[1].type = "Seragam"

(***************************************************************************)
(* filteredCount over Student and PaymentType.                             *)
(***************************************************************************)
CountedForms(e) ==
    IF e = "Student"
    THEN {StudentForm(gr, g, TRUE) : gr \in {"TK-A", "TK-B"}, g \in BOOLEAN}
    ELSE PaymentTypeForms

GroupFields(e) ==
    IF e = "Student"
    THEN {Str("gender"), Str("grade"), Str("height"), Str("birthdate"),
          Str("nickname2"), Undefined}
    ELSE {Str("type"), Str("deadline"), Str("amount"), Undefined}

FilteredCountCalls ==
    {[op |-> "filteredCount", entity |-> e,
      args |-> [start |-> a, end |-> Undefined, type |-> g]] :
        e \in {"Student", "PaymentType"},
        a \in {Undefined, Str(IsoString(1))},
        g \in GroupFields("Student") \cup GroupFields("PaymentType")}

CreateCounted ==
    \E e \in {"Student", "PaymentType"} :
        \E form \in CountedForms(e) : CreateOnly(e, form)

CallFilteredCount ==
    \E c \in FilteredCountCalls :
        c.args.type \in GroupFields(c.entity) /\ Call(c, 1)

NextCount ==
    CreateCounted \/ TickFilterClock \/ CallFilteredCount \/ QueryAny \/ Return

SpecCount == InitAllParents /\ [][NextCount]_vars

\* the field value a returned entry carries
EntryValue(v) == IF v[1] = "object" THEN v[4] ELSE v[2]

\* the date-matched records of a settled filteredCount
Matched ==
    SelectSeq(observed[response.call.entity],
              LAMBDA d : InBounds(d.createdAt, response.call.args.start,
                                  response.call.args.end))

FirstIndex(seq, f, x) == CHOOSE j \in 1..Len(seq) :
    seq[j][f] = x /\ \A k \in 1..(j - 1) : seq[k][f] # x

\* C7: for Student and PaymentType and any group field of the entity
\* (boolean, string, numeric or date-valued), filteredCount returns one
\* {value, count} pair per distinct value of the field among the
\* date-matched records, each exactly once, in order of first appearance,
\* count being the number of matched records holding the value.
C7_HistogramPerDistinctValue ==
    (/\ Settled("filteredCount")
     /\ response.call.args.type # Undefined
     /\ SchemaType(response.call.entity, response.call.args.type[2])
            \in {"Boolean", "String", "Number", "Date"}) =>
        LET f == response.call.args.type[2]
            chart == response.outcome.value
        IN /\ response.outcome.ok
           /\ \A j \in 1..Len(Matched) :
                  CountOf({i \in 1..Len(chart) :
                              EntryValue(chart[i].value) = Matched[j][f]}) = 1
           /\ \A i \in 1..Len(chart) :
                  /\ \E j \in 1..Len(Matched) :
                         Matched[j][f] = EntryValue(chart[i].value)
                  /\ chart[i].count =
                         CountOf({j \in 1..Len(Matched) :
                                     Matched[j][f] = EntryValue(chart[i].value)})
           /\ \A i \in 1..Len(chart) : \A k \in 1..Len(chart) :
                  i < k => FirstIndex(Matched, f, EntryValue(chart[i].value))
                              < FirstIndex(Matched, f, EntryValue(chart[k].value))

\* C8: only records with a defined group field contribute: when a matched
\* record lacks the group field, or the group field names no field of the
\* entity, the returned sequence has no entry for the undefined value and no
\* entry with count 0.
C8_NoUndefinedOrZeroEntry ==
    (Settled("filteredCount") /\ response.outcome.ok) =>
        \A i \in 1..Len(response.outcome.value) :
            /\ response.outcome.value[i].value # Undefined
            /\ response.outcome.value[i].count # 0

(***************************************************************************)
(* Student.formCount over several years of students.                       *)
(***************************************************************************)
GirlOrBoy == {StudentForm("TK-A", g, TRUE) : g \in BOOLEAN}

CreateGirlOrBoy == \E form \in GirlOrBoy : CreateOnly("Student", form)

TickFormClock == Tick(FormClock)

\* formCount reads the clock when it is called
CallFormCount ==
    Call([op |-> "formCount", entity |-> "Student", args |-> [dateNow |-> now]], 1)

NextForm == CreateGirlOrBoy \/ TickFormClock \/ CallFormCount \/ QueryAny \/ Return

SpecForm == InitAllParents /\ [][NextForm]_vars

\* the students a settled formCount has in its three-year window
Windowed ==
    {i \in 1..Len(observed["Student"]) :
        /\ observed["Student"][i].createdAt
               >= response.call.args.dateNow - 3 * TicksPerYear
        /\ observed["Student"][i].createdAt <= response.call.args.dateNow}

WindowedIn(y, g) ==
    {i \in Windowed : /\ observed["Student"][i].createdAt \div TicksPerYear = y
                      /\ observed["Student"][i].gender = g}

\* C9: formCount called at instant now counts exactly the students created
\* in [now - 3 years, now]: one row {year, girlCount, boyCount} for each
\* calendar year in which such a student was created and no other row, rows
\* ascending by year, girlCount the windowed students of the year with
\* gender true and boyCount those with gender false.
C9_FormCountWindowByYear ==
    Settled("formCount") =>
        LET rows == response.outcome.value
        IN /\ response.outcome.ok
           /\ \A i \in 1..Len(rows) :
                  /\ WindowedIn(rows[i].year, TRUE) \cup WindowedIn(rows[i].year, FALSE) # {}
                  /\ rows[i].girlCount = CountOf(WindowedIn(rows[i].year, TRUE))
                  /\ rows[i].boyCount = CountOf(WindowedIn(rows[i].year, FALSE))
           /\ \A w \in Windowed :
                  \E i \in 1..Len(rows) :
                      rows[i].year = observed["Student"][w].createdAt \div TicksPerYear
           /\ \A i \in 1..Len(rows) : \A k \in 1..Len(rows) :
                  i < k => rows[i].year < rows[k].year

C9_Witness ==
    /\ Settled("formCount")
    /\ Len(observed["Student"]) = 3
    /\ observed["Student"][1].createdAt < response.call.args.dateNow - 3 * TicksPerYear
    /\ response.outcome.value
           = <<[year |-> response.call.args.dateNow \div TicksPerYear,
                girlCount |-> 1, boyCount |-> 1]>>

(***************************************************************************)
(* Concurrent calls of every operation while documents are created.        *)
(***************************************************************************)
ConcurrentCalls ==
    {[op |-> "get", entity |-> "Student", args |-> [id |-> HexString(1)]],
     [op |-> "get", entity |-> "Registration",
      args |-> [id |-> [len |-> 5, hex |-> TRUE, val |-> 1]]],
     [op |-> "list", entity |-> "PaymentType",
      args |-> [page |-> Undefined, perPage |-> Num(1)]],
     [op |-> "listDownload", entity |-> "Student",
      args |-> Parameters(Undefined, Undefined,
                         [NoStudentFilters EXCEPT !.gender = Bool(TRUE)])],
     [op |-> "listDownload", entity |-> "PaymentType",
      args |-> Parameters(Str(IsoString(0)), Undefined,
                         NoPaymentTypeFilters)],
     [op |-> "filteredCount", entity |-> "PaymentType",
      args |-> [start |-> Undefined, end |-> Undefined, type |-> Str("type")]],
     [op |-> "filteredCount", entity |-> "Student",
      args |-> [start |-> Undefined, end |-> Undefined, type |-> Str("gender")]],
     [op |-> "formCount", entity |-> "Student", args |-> [dateNow |-> 0]]}

CallConcurrently == \E c \in ConcurrentCalls : Call(c, MaxPending)

TransformAny == \E e \in Entities : \E i \in 1..MaxRecords : Transform(e, i)

NextConcurrent ==
    CreateAny \/ CallConcurrently \/ QueryAny \/ TransformAny \/ Return

SpecConcurrent == InitAllParents /\ [][NextConcurrent]_vars

\* a step of some operation: a call is made, queried, projected or returned
OperationStep == pending' # pending \/ response' # response

====
